---- MODULE Spec2Model ----
(***************************************************************************)
(* RunnerBean: a Runner binds a callable to beanstalk tubes and consumes   *)
(* jobs in a reserve / decode / validate / invoke / resolve loop.          *)
(* Model of src/RunnerBean/__init__.py (Python 2).                         *)
(*                                                                         *)
(* The queue transport (beanstalkc), the JSON decoder and the bound        *)
(* callable are collaborators: the model records the calls the Runner      *)
(* makes on them and draws their answers from small sets.  The transport   *)
(* is taken to be healthy (a lost connection is fatal and outside the      *)
(* per-job behaviour), and an exception raised by a collaborator is one    *)
(* derived from Exception whose message formats with %s (KeyboardInterrupt *)
(* and SystemExit are external cancellation of the process, not the fault  *)
(* of a job).                                                              *)
(*                                                                         *)
(* Every method logs through the module-level name log, which the module   *)
(* itself never binds: the variable log tells whether the embedding        *)
(* process has bound it.  Unbound, __init__ ends with NameError in         *)
(* _process_argspec, so run is only ever reached with log bound.           *)
(***************************************************************************)
EXTENDS Integers, Sequences, FiniteSets, TLC

\* ------------------------------------------------------------------ bounds
\* Number of reserve calls one run of the loop is followed for.
MaxReserves == 2

\* ------------------------------------------------------------ input domains
None == "None"

\* Field names a payload may carry.
Fields == {"user_id", "retries", "extra"}

\* A decoded JSON value.  type is the Python type the decoder returns; keys
\* are the keys of a dict; n is the length of a list or string, or the value
\* of a number or boolean.
JsonValues ==
    {[type |-> "dict", keys |-> k, n |-> Cardinality(k)] : k \in SUBSET Fields}
    \cup {[type |-> "NoneType", keys |-> {}, n |-> 0]}
    \cup {[type |-> t, keys |-> {}, n |-> m] : t \in {"list", "int", "unicode", "bool"}, m \in {0, 1}}

JsonNull == [type |-> "NoneType", keys |-> {}, n |-> 0]

\* A job body as the transport hands it over: None, the empty string, or a
\* text that the decoder either rejects or turns into a JSON value.
Bodies ==
    {[raw |-> r, parses |-> FALSE, data |-> JsonNull] : r \in {"None", "empty", "text"}}
    \cup {[raw |-> "text", parses |-> TRUE, data |-> v] : v \in JsonValues}

\* What the bound callable does once its arguments are bound.
Outcomes == {"truthy", "falsy", "raises"}

\* The callables a Runner is constructed with.  args and ndefaults are what
\* inspect.getargspec reports (args includes self for a method; ndefaults is
\* -1 when argspec.defaults is None); keywords tells whether **kwargs is
\* declared.  kind "object" is an instance with a __call__ method, "builtin"
\* a callable whose argspec cannot be read, "noncallable" has no __call__.
Callables ==
    { [kind |-> "function", args |-> <<"user_id", "retries">>, ndefaults |-> 1, keywords |-> FALSE],
      [kind |-> "function", args |-> <<"user_id", "retries">>, ndefaults |-> -1, keywords |-> FALSE],
      [kind |-> "function", args |-> <<"user_id">>, ndefaults |-> -1, keywords |-> TRUE],
      [kind |-> "function", args |-> <<"retries">>, ndefaults |-> 1, keywords |-> FALSE],
      [kind |-> "function", args |-> <<>>, ndefaults |-> -1, keywords |-> FALSE],
      [kind |-> "method", args |-> <<"self", "user_id", "retries">>, ndefaults |-> 1, keywords |-> FALSE],
      [kind |-> "object", args |-> <<"self", "user_id">>, ndefaults |-> -1, keywords |-> FALSE],
      [kind |-> "builtin", args |-> <<>>, ndefaults |-> -1, keywords |-> FALSE],
      [kind |-> "noncallable", args |-> <<>>, ndefaults |-> -1, keywords |-> FALSE] }

\* The tubes argument of the constructor.
TubesArgs ==
    { [type |-> "None", val |-> <<>>],
      [type |-> "list", val |-> <<>>],
      [type |-> "list", val |-> <<"a", "b">>],
      [type |-> "str", val |-> <<"a">>],
      [type |-> "int", val |-> <<>>] }

\* The timeout argument of run: <<>> is None, <<t>> is t seconds.
Timeouts == {<<>>, <<0>>, <<5>>}

VARIABLES
    log,             \* the module-level name log: "unbound" or "bound"
    callable,        \* the callable argument / self.callable
    tubes,           \* the tubes argument of __init__
    pc,              \* where the Runner is
    error,           \* the exception that ended __init__ or run, or None
    _server,         \* self._server: None or "conn"
    _tubes,          \* self._tubes
    argspec,         \* _accepts_kwargs, _all_args, _expected_args, _preset_args
    transport,       \* calls made on the transport and its watch list
    timeout,         \* run's timeout argument
    reserves,        \* number of reserve calls made
    job,             \* the job of the current iteration, or None
    data,            \* the decoded payload of the current job
    trace            \* calls made for the current job: decode, callable, delete, bury

vars == <<log, callable, tubes, pc, error, _server, _tubes, argspec, transport,
          timeout, reserves, job, data, trace>>


\* -------------------------------------------------------------- collaborators
\* The job None that a reserve call returns when nothing was available.
NoJob == [jid |-> 0, body |-> [raw |-> "None", parses |-> FALSE, data |-> JsonNull]]

\* Python truth value of a decoded value: None is false, a container is true
\* when it is not empty, a number or boolean when it is not zero.
Truth(v) == IF v.type = "NoneType" THEN FALSE ELSE v.n # 0

\* format % args: a tuple of nargs values against nspecs conversion
\* specifiers raises TypeError unless the two numbers agree.
PercentFormat(nspecs, nargs) == IF nspecs = nargs THEN "ok" ELSE "TypeError"

\* Whether the object has a __name__ attribute.
HasName(c) == c.kind \in {"function", "method", "builtin"}

\* The parameters the callable really binds by name (self is already bound
\* for a bound method and for the __call__ of an instance).
Params(c) == IF c.kind = "function" THEN c.args ELSE Tail(c.args)

Range(s) == {s[i] : i \in 1..Len(s)}

\* The parameters of c that have no default value.
Required(c) ==
    LET ps == Params(c)
        nd == IF c.ndefaults < 0 THEN 0 ELSE c.ndefaults
    IN  {ps[i] : i \in 1..(Len(ps) - nd)}

\* Whether calling c(**kwargs) binds: every parameter without a default is
\* given, and nothing undeclared is given unless c declares **kwargs.
Binds(c, keys) ==
    /\ Required(c) \subseteq keys
    /\ (c.keywords \/ keys \subseteq Range(Params(c)))

\* A fresh connection watches the tube "default" only.
NoTransport == [opened |-> 0, calls |-> <<>>, watched |-> {}]
Call(op, tube, t) == [op |-> op, tube |-> tube, timeout |-> t]

\* beanstalkc.Connection(host, port)
Connect(tr) ==
    [opened |-> tr.opened + 1,
     calls |-> Append(tr.calls, Call("connect", None, <<>>)),
     watched |-> {"default"}]

\* Connection.ignore(name): the server refuses to ignore the only watched
\* tube, and beanstalkc swallows that refusal.
Ignore(tr, name) ==
    [tr EXCEPT !.calls = Append(@, Call("ignore", name, <<>>)),
               !.watched = IF @ = {name} THEN @ ELSE @ \ {name}]

\* Connection.watch(name)
Watch(tr, name) ==
    [tr EXCEPT !.calls = Append(@, Call("watch", name, <<>>)),
               !.watched = @ \cup {name}]

RECURSIVE WatchAll(_, _)
WatchAll(tr, names) ==
    IF names = <<>> THEN tr ELSE WatchAll(Watch(tr, Head(names)), Tail(names))

\* ------------------------------------------------------------ Runner helpers
NoArgspec == [_accepts_kwargs |-> FALSE, _all_args |-> <<>>,
              _expected_args |-> <<>>, _preset_args |-> <<>>]

\* s[:-n] and s[-n:] of Python for n >= 1.
DropLast(s, n) == SubSeq(s, 1, IF Len(s) > n THEN Len(s) - n ELSE 0)
TakeLast(s, n) == SubSeq(s, IF Len(s) > n THEN Len(s) - n + 1 ELSE 1, Len(s))

\* _process_argspec with the two slices exchanged: the parameters that have a
\* default are taken as the expected ones.
_process_argspec_swapped(c, lg) ==
    IF lg = "unbound" THEN [raised |-> "NameError", spec |-> NoArgspec]
    ELSE IF ~HasName(c) THEN [raised |-> "AttributeError", spec |-> NoArgspec]
    ELSE IF c.kind = "builtin" THEN [raised |-> "Exception", spec |-> NoArgspec]
    ELSE
      LET all == IF c.kind = "function" THEN c.args ELSE Tail(c.args)
      IN  [raised |-> None,
           spec |-> [_accepts_kwargs |-> c.keywords,
                     _all_args |-> all,
                     _expected_args |-> IF c.ndefaults < 0 THEN all
                                        ELSE TakeLast(all, c.ndefaults),
                     _preset_args |-> IF c.ndefaults < 0 THEN all
                                      ELSE DropLast(all, c.ndefaults)]]

\* Runner._process_argspec: the exception it raises (or None) and the four
\* attributes it leaves on the Runner.
_process_argspec(c, lg) ==
    IF lg = "unbound" THEN [raised |-> "NameError", spec |-> NoArgspec]
    ELSE IF ~HasName(c) THEN [raised |-> "AttributeError", spec |-> NoArgspec]
    ELSE IF c.kind = "builtin" THEN [raised |-> "Exception", spec |-> NoArgspec]
    ELSE
      LET all == IF c.kind = "function" THEN c.args ELSE Tail(c.args)
      IN  [raised |-> None,
           spec |-> [_accepts_kwargs |-> c.keywords,
                     _all_args |-> all,
                     _expected_args |-> IF c.ndefaults < 0 THEN all
                                        ELSE DropLast(all, c.ndefaults),
                     _preset_args |-> IF c.ndefaults < 0 THEN all
                                      ELSE TakeLast(all, c.ndefaults)]]

\* _get_connection without the memo: every use opens and sets up a connection.
_get_connection_reconnect(srv, tbs, tr) ==
    LET c == Connect(tr)
    IN  IF tbs # <<>> THEN WatchAll(Ignore(c, "default"), tbs) ELSE c

\* _get_connection watching the tubes before it ignores the default one.
_get_connection_watch_first(srv, tbs, tr) ==
    IF srv = None
    THEN LET c == Connect(tr)
         IN  IF tbs # <<>> THEN Ignore(WatchAll(c, tbs), "default") ELSE c
    ELSE tr

\* _get_connection without the test of self._tubes.
_get_connection_unguarded(srv, tbs, tr) ==
    IF srv = None THEN WatchAll(Ignore(Connect(tr), "default"), tbs) ELSE tr

\* Runner._get_connection (the server property): opens and sets up the
\* connection when self._server is not set, and returns the transport state.
_get_connection(srv, tbs, tr) ==
    IF srv = None
    THEN LET c == Connect(tr)
         IN  IF tbs # <<>> THEN WatchAll(Ignore(c, "default"), tbs) ELSE c
    ELSE tr

NoTrace == [decode |-> 0, call |-> 0, kwargs |-> {}, outcome |-> None, resolve |-> <<>>]

\* job.bury() / job.delete(), recorded for the current job.
Bury(t) == [t EXCEPT !.resolve = Append(@, "bury")]
Delete(t) == [t EXCEPT !.resolve = Append(@, "delete")]

\* ---------------------------------------------------------------------- Init
Init ==
    /\ log \in {"unbound", "bound"}
    /\ callable \in Callables
    /\ tubes \in TubesArgs
    /\ pc = "new"
    /\ error = None
    /\ _server = None
    /\ _tubes = <<"default">>
    /\ argspec = NoArgspec
    /\ transport = NoTransport
    /\ timeout = <<>>
    /\ reserves = 0
    /\ job = NoJob
    /\ data = JsonNull
    /\ trace = NoTrace

\* The exception Runner.__init__ ends with, or None.
Raised(c, lg, tb) ==
    LET pa == _process_argspec(c, lg)
    IN  IF c.kind = "noncallable" THEN "AttributeError"
        ELSE IF pa.raised # None THEN pa.raised
        ELSE IF pa.spec._expected_args = <<>> THEN "Exception"
        ELSE IF tb.type \notin {"list", "str", "None"} THEN "Exception"
        ELSE None

\* ------------------------------------------------------------------- actions
\* Runner.__init__
__init__ ==
    /\ pc = "new"
    /\ LET pa == _process_argspec(callable, log)
           raised == Raised(callable, log, tubes)
       IN  /\ error' = raised
           /\ pc' = IF raised = None THEN "constructed" ELSE "failed"
           /\ argspec' = IF callable.kind = "noncallable" THEN argspec ELSE pa.spec
           /\ _tubes' = IF raised = None /\ tubes.type \in {"list", "str"}
                        THEN tubes.val ELSE _tubes
    /\ UNCHANGED <<log, callable, tubes, _server, transport, timeout, reserves,
                   job, data, trace>>

\* Runner.run, up to the loop: the two log lines.
run(t) ==
    /\ pc = "constructed"
    /\ timeout' = t
    /\ pc' = "reserve"
    /\ UNCHANGED <<log, callable, tubes, error, _server, _tubes, argspec,
                   transport, reserves, job, data, trace>>

\* The head of one iteration: self.server.reserve(...), and the empty-job test.
Reserve ==
    /\ pc = "reserve"
    /\ reserves < MaxReserves
    /\ LET conn == _get_connection(_server, _tubes, transport)
           arg == IF timeout # <<>> /\ timeout[1] # 0 THEN timeout ELSE <<>>
       IN  transport' = [conn EXCEPT !.calls = Append(@, Call("reserve", None, arg))]
    /\ _server' = "conn"
    /\ reserves' = reserves + 1
    /\ trace' = NoTrace
    /\ data' = JsonNull
    /\ \/ /\ job' = NoJob
          /\ pc' = "reserve"
       \/ /\ \E b \in Bodies : job' = [jid |-> reserves + 1, body |-> b]
          /\ pc' = "body"
    /\ UNCHANGED <<log, callable, tubes, error, _tubes, argspec, timeout>>

\* CheckBody testing job.body against None only: an empty string is decoded.
CheckBody_none_only ==
    /\ pc = "body"
    /\ IF job.body.raw = "None"
       THEN trace' = Bury(trace) /\ pc' = "reserve"
       ELSE trace' = trace /\ pc' = "decode"
    /\ UNCHANGED <<log, callable, tubes, error, _server, _tubes, argspec,
                   transport, timeout, reserves, job, data>>

\* if not job.body: bury, continue
CheckBody ==
    /\ pc = "body"
    /\ IF job.body.raw \in {"None", "empty"}
       THEN trace' = Bury(trace) /\ pc' = "reserve"
       ELSE trace' = trace /\ pc' = "decode"
    /\ UNCHANGED <<log, callable, tubes, error, _server, _tubes, argspec,
                   transport, timeout, reserves, job, data>>

\* Decode without its try: the decoding error leaves run.
Decode_unguarded ==
    /\ pc = "decode"
    /\ trace' = [trace EXCEPT !.decode = @ + 1]
    /\ IF job.body.parses
       THEN data' = job.body.data /\ pc' = "empty" /\ error' = error
       ELSE data' = data /\ pc' = "raised" /\ error' = "ValueError"
    /\ UNCHANGED <<log, callable, tubes, _server, _tubes, argspec,
                   transport, timeout, reserves, job>>

\* data = decode(job.body); a decoding error buries the job.
Decode ==
    /\ pc = "decode"
    /\ LET t == [trace EXCEPT !.decode = @ + 1]
       IN  IF job.body.parses
           THEN data' = job.body.data /\ trace' = t /\ pc' = "empty"
           ELSE data' = data /\ trace' = Bury(t) /\ pc' = "reserve"
    /\ UNCHANGED <<log, callable, tubes, error, _server, _tubes, argspec,
                   transport, timeout, reserves, job>>

\* if not data: bury, continue
CheckEmpty ==
    /\ pc = "empty"
    /\ IF ~Truth(data)
       THEN trace' = Bury(trace) /\ pc' = "reserve"
       ELSE trace' = trace /\ pc' = "args"
    /\ UNCHANGED <<log, callable, tubes, error, _server, _tubes, argspec,
                   transport, timeout, reserves, job, data>>

\* keys = set(data.keys()); args = set(self._expected_args);
\* if args - keys: bury, continue.  data.keys() raises AttributeError, outside
\* any try, when the decoded value is not a dict.
CheckArgs ==
    /\ pc = "args"
    /\ IF data.type # "dict"
       THEN trace' = trace /\ pc' = "raised" /\ error' = "AttributeError"
       ELSE IF Range(argspec._expected_args) \ data.keys # {}
       THEN trace' = Bury(trace) /\ pc' = "reserve" /\ error' = error
       ELSE trace' = trace /\ pc' = "invoke" /\ error' = error
    /\ UNCHANGED <<log, callable, tubes, _server, _tubes, argspec,
                   transport, timeout, reserves, job, data>>

\* The log lines of the try block and of its handler:
\*   '    [%s] executing job with args (%s)' % (job.jid, keys)
\*   '    [%s] executed successfully' % (job.jid, keys)
\*   '      %s' % e
LogExecuting == PercentFormat(2, 2)
LogExecuted == PercentFormat(1, 2)
LogException == PercentFormat(1, 1)

\* Execute without the handler: what the callable raises leaves run.
Execute_uncaught(t, c, keys, outcome) ==
    LET called == [t EXCEPT !.call = @ + 1, !.kwargs = keys,
                            !.outcome = IF Binds(c, keys) THEN outcome ELSE "TypeError"]
    IN  IF ~Binds(c, keys) THEN [trace |-> called, raised |-> "TypeError"]
        ELSE IF outcome = "raises" THEN [trace |-> called, raised |-> "Exception"]
        ELSE [trace |-> Bury(called), raised |-> None]

\* Execute taking any normal return of the callable as success.
Execute_any_return(t, c, keys, outcome) ==
    LET called == [t EXCEPT !.call = @ + 1, !.kwargs = keys,
                            !.outcome = IF Binds(c, keys) THEN outcome ELSE "TypeError"]
    IN  IF Binds(c, keys) /\ outcome = "falsy"
        THEN [trace |-> Delete(called), raised |-> None]
        ELSE [trace |-> Bury(called), raised |-> None]

\* Execute passing only the fields that name declared parameters.
Execute_declared_only(t, c, keys, outcome) ==
    LET kw == keys \cap Range(Params(c))
        called == [t EXCEPT !.call = @ + 1, !.kwargs = kw,
                            !.outcome = IF Binds(c, kw) THEN outcome ELSE "TypeError"]
    IN  [trace |-> Bury(called), raised |-> None]

\* The try block around self.callable(**data), its handler and the
\* job.bury() after it: the calls made on the callable and on the job, given
\* what the callable does, and the exception that leaves the loop (or None).
Execute(t, c, keys, outcome) ==
    LET called == [t EXCEPT !.call = @ + 1, !.kwargs = keys,
                            !.outcome = IF Binds(c, keys) THEN outcome ELSE "TypeError"]
        path == IF LogExecuting # "ok" THEN "except"
                ELSE IF ~Binds(c, keys) \/ outcome = "raises" THEN "except"
                ELSE IF outcome = "truthy"
                THEN (IF LogExecuted = "ok" THEN "delete" ELSE "except")
                ELSE "bury"
        after == IF LogExecuting # "ok" THEN t ELSE called
    IN  IF path = "delete" THEN [trace |-> Delete(after), raised |-> None]
        ELSE IF path = "except" /\ LogException # "ok"
        THEN [trace |-> after, raised |-> LogException]
        ELSE [trace |-> Bury(after), raised |-> None]

Invoke ==
    /\ pc = "invoke"
    /\ \E outcome \in Outcomes :
         LET r == Execute(trace, callable, data.keys, outcome)
         IN  /\ trace' = r.trace
             /\ error' = IF r.raised = None THEN error ELSE r.raised
             /\ pc' = IF r.raised = None THEN "reserve" ELSE "raised"
    /\ UNCHANGED <<log, callable, tubes, _server, _tubes, argspec,
                   transport, timeout, reserves, job, data>>

\* Runner.__del__: if self.server: self.server.close(), any failure swallowed.
__del__ ==
    /\ pc \in {"constructed", "failed", "raised"}
    /\ LET conn == _get_connection(_server, _tubes, transport)
       IN  transport' = [conn EXCEPT !.calls = Append(@, Call("close", None, <<>>))]
    /\ _server' = "conn"
    /\ pc' = "deleted"
    /\ UNCHANGED <<log, callable, tubes, error, _tubes, argspec, timeout,
                   reserves, job, data, trace>>

Next ==
    \/ __init__
    \/ \E t \in Timeouts : run(t)
    \/ Reserve
    \/ CheckBody
    \/ Decode
    \/ CheckEmpty
    \/ CheckArgs
    \/ Invoke
    \/ __del__

Spec == Init /\ [][Next]_vars

\* --------------------------------------------------------------- properties
\* The current job is a reserved job (reserve did not return None).
Reserved == job.jid # 0

\* The iteration of the current job is over: the loop is back at its reserve
\* call, or run has ended with an exception.
IterationOver == pc \in {"reserve", "raised"}

\* The body of the current job decodes to a dict.
DictPayload == job.body.raw = "text" /\ job.body.parses /\ job.body.data.type = "dict"

\* C1: when the callable was invoked on the payload of a reserved job and
\* returned a truthy value, the job is resolved by one delete call and no
\* bury call before the next reservation.
C1_TruthyDeleted ==
    (Reserved /\ IterationOver /\ trace.outcome = "truthy")
        => trace.resolve = <<"delete">>

\* C2: a reserved job never receives two resolution calls, and has received
\* exactly one when its iteration is over; a reservation that returned no
\* job is followed by no resolution call.
C2_ExactlyOneResolution ==
    /\ Len(trace.resolve) <= 1
    /\ ~Reserved => trace.resolve = <<>>
    /\ (Reserved /\ IterationOver) => Len(trace.resolve) = 1

\* C3: whatever the body of a reserved job holds, run does not end with an
\* error: the job is buried and the loop is back at its reserve call.
C3_NoJobFaultEscapes ==
    /\ pc # "raised"
    /\ (Reserved /\ pc = "reserve" /\ trace.outcome # "truthy")
           => trace.resolve = <<"bury">>

\* C4: when the invocation of the callable raises, the exception is caught,
\* the job is buried, and the loop is at its next reserve call with run
\* not terminated.
C4_RaiseBuried ==
    (Reserved /\ trace.outcome \in {"raises", "TypeError"})
        => (trace.resolve = <<"bury">> /\ pc = "reserve" /\ error = None)

C4_Witness ==
    Reserved /\ trace.call = 1 /\ trace.outcome = "raises"
    /\ trace.resolve = <<"bury">> /\ pc = "reserve"

\* C5: when the callable was invoked and returned a falsy value, the job is
\* buried and delete is never called on it.
C5_FalsyBuried ==
    (Reserved /\ trace.outcome = "falsy") => trace.resolve = <<"bury">>

C5_Witness ==
    Reserved /\ trace.call = 1 /\ trace.outcome = "falsy"
    /\ trace.resolve = <<"bury">>

\* C6: delete is called on a job only if the callable was invoked on its
\* payload and returned a truthy value; every other reserved job is buried,
\* never deleted and never left unresolved.
C6_DeleteOnlyOnTruthy ==
    /\ (\E i \in 1..Len(trace.resolve) : trace.resolve[i] = "delete")
           => (trace.call = 1 /\ trace.outcome = "truthy")
    /\ (Reserved /\ IterationOver /\ trace.outcome # "truthy")
           => trace.resolve = <<"bury">>

\* C7: a reserved job whose decoded payload (a dict, the empty one included)
\* lacks a required parameter of the callable is buried, and the callable is
\* never invoked for it.
C7_MissingFieldBuried ==
    (Reserved /\ DictPayload /\ Required(callable) \ job.body.data.keys # {})
        => /\ trace.call = 0
           /\ pc # "invoke"
           /\ IterationOver => (trace.resolve = <<"bury">> /\ pc = "reserve")

C7_Witness ==
    /\ Reserved /\ DictPayload
    /\ job.body.data.keys # {}
    /\ Required(callable) \ job.body.data.keys # {}
    /\ pc = "reserve" /\ trace.decode = 1 /\ trace.resolve = <<"bury">>

\* C8: a reserved job whose body fails decoding is buried, the callable is
\* never invoked for it, and the loop continues with the next reservation.
C8_DecodeFailureBuried ==
    (Reserved /\ job.body.raw = "text" /\ ~job.body.parses)
        => /\ trace.call = 0
           /\ pc \in {"body", "decode", "reserve"}
           /\ trace.decode = 1 =>
                  (trace.resolve = <<"bury">> /\ pc = "reserve" /\ error = None)

C8_Witness ==
    /\ Reserved /\ job.body.raw = "text" /\ ~job.body.parses
    /\ trace.decode = 1 /\ trace.resolve = <<"bury">> /\ pc = "reserve"

\* C9: a reserved job with an absent body is buried, and neither the decode
\* step nor the callable is executed for it.
C9_AbsentBodyBuried ==
    (Reserved /\ job.body.raw \in {"None", "empty"})
        => /\ trace.decode = 0
           /\ trace.call = 0
           /\ pc \in {"body", "reserve"}
           /\ pc = "reserve" => trace.resolve = <<"bury">>

C9_Witness ==
    /\ Reserved /\ job.body.raw \in {"None", "empty"}
    /\ pc = "reserve" /\ trace.resolve = <<"bury">> /\ trace.decode = 0

\* C10: a reserved job whose decoded payload holds every required parameter
\* of the callable, and beyond them only declared parameters (or anything,
\* when the callable accepts extras), has the callable invoked exactly once,
\* with exactly the fields of the payload bound by name.
C10_InvokedOnceWithPayload ==
    /\ trace.call <= 1
    /\ (Reserved /\ DictPayload /\ Binds(callable, job.body.data.keys) /\ IterationOver)
           => /\ trace.call = 1
              /\ trace.kwargs = job.body.data.keys
              /\ trace.outcome \in Outcomes

C10_Witness ==
    /\ Reserved /\ DictPayload /\ IterationOver
    /\ callable.keywords
    /\ "extra" \in job.body.data.keys
    /\ trace.call = 1 /\ trace.kwargs = job.body.data.keys

\* The Runner was constructed: __init__ has run and raised nothing.
Constructed == pc # "new" /\ Raised(callable, log, tubes) = None

\* The positions of the calls of one kind made on the transport.
CallsOf(op) == {i \in 1..Len(transport.calls) : transport.calls[i].op = op}

\* Queue names were given to the constructor.
Configured == tubes.type \in {"list", "str"} /\ tubes.val # <<>>

\* C11: a Runner opens at most one connection: its first use opens it and
\* issues ignore/watch, every later use neither opens another nor issues
\* ignore or watch again.
C11_OneConnection ==
    /\ transport.opened <= 1
    /\ Cardinality(CallsOf("connect")) = transport.opened
    /\ (_server = None) <=> (transport.opened = 0)
    /\ Cardinality(CallsOf("ignore")) <= 1
    /\ Cardinality(CallsOf("watch")) <= Len(_tubes)
    /\ \A i \in CallsOf("reserve") \cup CallsOf("close") :
           \A j \in CallsOf("connect") \cup CallsOf("ignore") \cup CallsOf("watch") : j < i

C11_Witness ==
    /\ Cardinality(CallsOf("reserve")) >= 2
    /\ transport.opened = 1
    /\ Cardinality(CallsOf("watch")) = 2

\* C12: with queue names configured, the setup issues ignore of the default
\* queue once and then one watch per configured name, in the configured
\* order, all before the first reserve call.
C12_SetupBeforeReserve ==
    (Constructed /\ Configured /\ CallsOf("reserve") # {})
        => LET n == Len(tubes.val)
           IN  /\ Len(transport.calls) >= n + 3
               /\ transport.calls[1].op = "connect"
               /\ transport.calls[2] = Call("ignore", "default", <<>>)
               /\ \A i \in 1..n : transport.calls[2 + i] = Call("watch", tubes.val[i], <<>>)
               /\ transport.calls[n + 3].op = "reserve"
               /\ Cardinality(CallsOf("ignore")) = 1
               /\ Cardinality(CallsOf("watch")) = n

C12_Witness ==
    /\ Constructed /\ Len(tubes.val) = 2
    /\ CallsOf("reserve") # {}
    /\ CallsOf("watch") = {3, 4}

\* C13, as claimed: with the queue names omitted or an empty collection, the
\* connection setup of a running Runner issues no watch call.
C13_NoWatchWhenUnconfigured ==
    (Constructed /\ ~Configured /\ pc # "deleted") => CallsOf("watch") = {}

\* C13, amended: with an empty collection the setup issues no ignore and no
\* watch call; with the queue names omitted the default list ['default']
\* applies and the setup issues ignore('default') and one watch('default');
\* either way the default queue is the only one watched.
C13_UnconfiguredSetup ==
    (Constructed /\ ~Configured /\ transport.opened = 1)
        => /\ transport.watched = {"default"}
           /\ tubes.type = "list" =>
                  (CallsOf("watch") = {} /\ CallsOf("ignore") = {})
           /\ tubes.type = "None" =>
                  /\ Len(transport.calls) >= 3
                  /\ transport.calls[2] = Call("ignore", "default", <<>>)
                  /\ transport.calls[3] = Call("watch", "default", <<>>)
                  /\ CallsOf("watch") = {3} /\ CallsOf("ignore") = {2}

C13_Witness ==
    /\ Constructed /\ tubes.type = "list" /\ tubes.val = <<>>
    /\ CallsOf("reserve") # {} /\ CallsOf("watch") = {}

\* The callable is invocable and its argspec can be read.
Inspectable == callable.kind \in {"function", "method", "object"}

\* C14: constructing a Runner with a callable that has no required parameter
\* fails with an error, and for such a Runner no connection is opened and no
\* reservation is made (stated for a process in which the name log is bound).
C14_NoRequiredNeverStarts ==
    (pc # "new" /\ log = "bound" /\ Inspectable /\ Required(callable) = {})
        => /\ Raised(callable, log, tubes) # None
           /\ error # None
           /\ pc \in {"failed", "deleted"}
           /\ transport.opened = 0
           /\ CallsOf("reserve") = {}

\* C15: every reserve call of run carries the timeout run was given, for
\* every given value, and is made without a timeout only when none was given.
C15_ReserveCarriesTimeout ==
    \A i \in CallsOf("reserve") : transport.calls[i].timeout = timeout

\* C16: teardown closes the connection if one is open, and does nothing to
\* the transport when no connection was ever opened (stated for a process in
\* which the name log is bound).
C16_TeardownOnlyCloses ==
    (pc = "deleted" /\ log = "bound")
        => IF CallsOf("reserve") = {}
           THEN transport = NoTransport
           ELSE /\ transport.opened = 1
                /\ CallsOf("close") = {Len(transport.calls)}

\* C17: the callable is given all fields of the payload when it accepts
\* extras, and only the fields that name declared parameters when it does not.
C17_OnlyDeclaredForwarded ==
    (Reserved /\ trace.call = 1)
        => trace.kwargs = IF callable.keywords THEN job.body.data.keys
                          ELSE job.body.data.keys \cap Range(Params(callable))

\* C18: the required list and the optional list of the analyzer partition
\* the declared parameters in declaration order: required holds exactly the
\* parameters without a default, optional exactly those with one.
C18_RequiredOptionalPartition ==
    (pc # "new" /\ _process_argspec(callable, log).raised = None)
        => /\ argspec._expected_args \o argspec._preset_args = argspec._all_args
           /\ Range(argspec._expected_args) \cap Range(argspec._preset_args) = {}
           /\ Range(argspec._expected_args) = Required(callable)
           /\ Len(argspec._preset_args) = IF callable.ndefaults < 0 THEN 0
                                          ELSE callable.ndefaults

\* C19: constructing a Runner with an invocable, inspectable target that has
\* a required parameter and with a valid queue-names argument raises nothing
\* (stated for a process in which the name log is bound).
C19_ValidConstructionSucceeds ==
    (pc # "new" /\ log = "bound" /\ Inspectable /\ Required(callable) # {}
       /\ tubes.type \in {"None", "list", "str"})
        => (Raised(callable, log, tubes) = None /\ pc # "failed")

\* C20: after the setup with configured queue names that do not include the
\* default queue, the connection reserves from exactly the configured queues.
C20_WatchesExactlyConfigured ==
    (Constructed /\ Configured /\ "default" \notin Range(tubes.val)
       /\ CallsOf("reserve") # {})
        => transport.watched = Range(tubes.val)

====
